---- MODULE Spec2Model ----
(***************************************************************************)
(* The migration runner of tern: an Executor over one database, the        *)
(* MigrationContext that couples the source migrations to it, and the      *)
(* operations of Runner (tern-core/src/runner.rs) and of the Tern          *)
(* application (src/app/mod.rs).  One action per database round trip of an *)
(* operation; every executor call may fail with a backend error.           *)
(***************************************************************************)
EXTENDS Integers, Sequences, FiniteSets, TLC

\* ---------------------------------------------------------------- bounds
\* Source versions are drawn from 1..MaxVersion.
MaxVersion == 2
\* Number of operations started in one behaviour.
MaxRuns == 2
\* Every migration query consists of this many ';'-terminated statements.
NumStmts == 2

Versions == 1 .. MaxVersion
\* start.elapsed().as_millis() of a real apply: zero, or (1) any positive time.
Elapsed == {0, 1}
\* Description of every source migration, and the description a history row
\* carries when its source file was renamed after it was applied.
SourceDesc == "first"
OtherDesc == "renamed"
Descriptions == {SourceDesc, OtherDesc}

\* Option<i64>
None == [some |-> FALSE, v |-> 0]
Some(x) == [some |-> TRUE, v |-> x]
Targets == {None} \cup {Some(x) : x \in 0 .. (MaxVersion + 1)}

\* ------------------------------------------------------------ data types
MigrationId(version, description) ==
    [version |-> version, description |-> description]

\* impl From<AppliedMigration> for MigrationId
IdOfApplied(row) == MigrationId(row.version, row.description)

\* Migration::migration_id
migration_id(m) == MigrationId(m.version, m.description)

\* The text of a query: the statements of the migration it was built for.
Sql(m) == [k \in 1 .. NumStmts |-> <<m.version, k>>]

\* The versions whose migration has taken full effect in the database db.
InEffect(db) == {v \in Versions : db[v][NumStmts] > 0}

\* Migration::build against the database db: a static migration yields its
\* file's text; a QueryBuilder that reads the database yields statements
\* that depend on what it finds there, i.e. on the migrations in effect.
build(m, db) ==
    IF m.dynamic
    THEN [k \in 1 .. NumStmts |-> <<m.version, k, InEffect(db)>>]
    ELSE Sql(m)

\* The marker run_soft_apply puts in front of the built query.
SoftMarker == "-- SOFT APPLIED:"
NoMarker == ""

\* to_applied writing another description than the migration's.
to_applied_Renamed(m, duration_ms, marker, sql) ==
    [version |-> m.version, description |-> OtherDesc,
     marker |-> marker, content |-> sql, duration_ms |-> duration_ms]

\* AppliedMigration::new via Migration::to_applied
to_applied(m, duration_ms, marker, sql) ==
    [version |-> m.version, description |-> m.description,
     marker |-> marker, content |-> sql, duration_ms |-> duration_ms]

\* ------------------------------------------------------- sequence helpers
RECURSIVE SeqOfSet(_)
\* A set of integers as an ascending sequence.
SeqOfSet(S) ==
    IF S = {} THEN << >>
    ELSE LET lo == CHOOSE x \in S : \A y \in S : x <= y
         IN  <<lo>> \o SeqOfSet(S \ {lo})

Range(s) == {s[i] : i \in 1 .. Len(s)}

VersionsOf(s) == [i \in 1 .. Len(s) |-> s[i].version]

\* The sort puts every element in front of the ones already placed.
InsertByVersion_Front(sorted, m) == <<m>> \o sorted

RECURSIVE InsertByVersion(_, _)
\* Insert m after every element whose version is <= its own (stable).
InsertByVersion(sorted, m) ==
    IF sorted = << >> THEN <<m>>
    ELSE IF Head(sorted).version <= m.version
         THEN <<Head(sorted)>> \o InsertByVersion(Tail(sorted), m)
         ELSE <<m>> \o sorted

RECURSIVE SortByVersion(_)
\* Vec::sort_by_key(|m| m.version()): a stable sort.
SortByVersion(vs) ==
    IF vs = << >> THEN << >>
    ELSE InsertByVersion(SortByVersion(SubSeq(vs, 1, Len(vs) - 1)), vs[Len(vs)])

RECURSIVE Reverse(_)
Reverse(vs) == IF vs = << >> THEN << >> ELSE Reverse(Tail(vs)) \o <<Head(vs)>>

\* MigrationSet::new sorting by descending version.
MigrationSetNew_Descending(vs) == Reverse(SortByVersion(vs))

\* MigrationSet::new
MigrationSetNew(vs) == SortByVersion(vs)

\* MigrationSet::versions
versions(set) == VersionsOf(set)

\* MigrationSet::migration_ids
migration_ids(set) == [i \in 1 .. Len(set) |-> migration_id(set[i])]

\* MigrationSet::max
max(set) ==
    IF set = << >> THEN None
    ELSE Some(CHOOSE x \in Range(versions(set)) :
                 \A y \in Range(versions(set)) : y <= x)

RECURSIVE SkipWhileLe_Strict(_, _)
\* skip_while(|m| m.version() < v): the last applied migration is kept.
SkipWhileLe_Strict(vs, v) ==
    IF vs = << >> THEN << >>
    ELSE IF Head(vs).version < v THEN SkipWhileLe_Strict(Tail(vs), v) ELSE vs

RECURSIVE SkipWhileLe(_, _)
\* Iterator::skip_while(|m| m.version() <= v)
SkipWhileLe(vs, v) ==
    IF vs = << >> THEN << >>
    ELSE IF Head(vs).version <= v THEN SkipWhileLe(Tail(vs), v) ELSE vs

\* The derive-generated MigrationContext::migration_set
migration_set(all, arg) ==
    IF ~arg.some THEN MigrationSetNew(all)
    ELSE MigrationSetNew(SkipWhileLe(all, arg.v))

\* ------------------------------------------------------------ the database
\* The rows are returned by descending version.
RowsInOrder_Descending(rows) ==
    LET vs == SeqOfSet({r.version : r \in rows})
    IN  [i \in 1 .. Len(vs) |->
            CHOOSE r \in rows : r.version = vs[Len(vs) + 1 - i]]

\* select_star_from_history_query: the rows, ORDER BY version.
RowsInOrder(rows) ==
    LET vs == SeqOfSet({r.version : r \in rows})
    IN  [i \in 1 .. Len(vs) |-> CHOOSE r \in rows : r.version = vs[i]]

RECURSIVE FoldLatest(_, _)
\* The fold of MigrationContext::latest_version.
FoldLatest(acc, rows) ==
    IF rows = << >> THEN acc
    ELSE LET m == Head(rows)
             nxt == IF ~acc.some THEN Some(m.version)
                    ELSE IF m.version > acc.v THEN Some(m.version)
                    ELSE acc
         IN  FoldLatest(nxt, Tail(rows))

\* MigrationContext::latest_version on the rows get_all_applied returned
latest_version(rows) == FoldLatest(None, rows)

\* check_migrations_in_sync comparing versions only.
check_migrations_in_sync_ByVersion(applied, source) ==
    {a \in applied : \A s \in source : s.version # a.version}

\* check_migrations_in_sync: the applied ids missing from source
\* (HashSet::difference); an empty set is Ok(()).
check_migrations_in_sync(applied, source) == applied \ source

\* validate_target refusing a target equal to the latest applied version.
validate_target_Strict(all, last_applied, target_version) ==
    LET source == max(migration_set(all, None))
    IN  IF ~source.some THEN TRUE
        ELSE IF target_version.some
             THEN IF last_applied.some /\ target_version.v <= last_applied.v
                  THEN FALSE
                  ELSE IF target_version.v > source.v THEN FALSE
                  ELSE TRUE
             ELSE TRUE

\* Runner::validate_target / Validator::validate_target: TRUE is Ok(()).
validate_target(all, last_applied, target_version) ==
    LET source == max(migration_set(all, None))
    IN  IF ~source.some THEN TRUE
        ELSE IF target_version.some
             THEN IF last_applied.some /\ target_version.v < last_applied.v
                  THEN FALSE
                  ELSE IF target_version.v > source.v THEN FALSE
                  ELSE TRUE
             ELSE TRUE

\* `Some(end) if ver >= end`: the loop is left before the target itself.
reached_target_Inclusive(target_version, ver) ==
    target_version.some /\ ver >= target_version.v

\* `matches!(target_version, Some(end) if ver > end)`: leave the loop.
reached_target(target_version, ver) ==
    target_version.some /\ ver > target_version.v

\* -------------------------------------------------------- report entries
\* MigrationResult::from_applied
from_applied(applied, no_tx) ==
    [dryrun |-> FALSE, version |-> applied.version, state |-> "Applied",
     description |-> applied.description, marker |-> applied.marker,
     content |-> applied.content,
     transactional |-> IF ~no_tx.some THEN "Previously applied"
                       ELSE IF no_tx.v THEN "NoTransaction" ELSE "InTransaction",
     duration_ms |-> Some(applied.duration_ms)]

\* MigrationResult::from_soft_applied
from_soft_applied(applied, isDry) ==
    [dryrun |-> isDry, version |-> applied.version, state |-> "SoftApplied",
     description |-> applied.description, marker |-> applied.marker,
     content |-> applied.content, transactional |-> "Soft applied",
     duration_ms |-> Some(applied.duration_ms)]

\* MigrationResult::from_unapplied
from_unapplied(m, content) ==
    [dryrun |-> TRUE, version |-> m.version, state |-> "Unapplied",
     description |-> m.description, marker |-> NoMarker, content |-> content,
     transactional |-> IF m.no_tx THEN "NoTransaction" ELSE "InTransaction",
     duration_ms |-> None]

\* ------------------------------------------------------------------ state
VARIABLES
    app,             \* "Runner" (tern-core Runner) or "Tern" (the application)
    all,             \* the context's source migrations, ascending by version
    historyExists,   \* the history table exists
    history,         \* the rows of the history table
    committed,       \* committed[v][k]: times statement k of V<v> was committed
    pc,              \* position of the running operation, "idle" between calls
    op,              \* operation of the current (or last) call
    target_version,  \* its target
    dryrun,          \* its dry-run flag
    skip_validate,   \* Tern only: validation is skipped
    unapplied,       \* migrations the loop still has to visit, current first
    stmt,            \* apply_no_tx: index of the next statement
    query,           \* the Query built for the current migration
    applied,         \* the AppliedMigration about to be written
    results,         \* the Vec<MigrationResult> of the running operation
    result,          \* what the last call returned
    log,             \* executor and build calls made by the current call
    runs,            \* number of calls started
    prevApplyAll,    \* the call before was run_apply(None, false) returning Ok
    prevDry,         \* target and report of the call before, if it was a
                     \* run_apply(_, true) returning Ok
    prevDropped,     \* the call before was drop_history returning Ok
    history0,        \* history rows when the current call started
    historyExists0,  \* whether the history table existed at that time
    committed0,      \* committed statements at that time
    other,           \* the local state of a second runner process that is
                     \* not taking a step, on the same database
    arg,             \* the argument of a function called on its own
    ret              \* and the value it returned

vars == <<app, all, historyExists, history, committed, pc, op, target_version,
          dryrun, skip_validate, unapplied, stmt, query, applied, results,
          result, log, runs, prevApplyAll, prevDry, prevDropped, history0,
          historyExists0, committed0, other, arg, ret>>

dbVars == <<historyExists, history, committed>>
callVars == <<op, target_version, dryrun, skip_validate, runs, prevApplyAll,
              prevDry, prevDropped, history0, historyExists0, committed0>>

NoApplied == to_applied([version |-> 0, description |-> ""], 0, NoMarker, << >>)

NoResult == [kind |-> "none", source |-> "", cause |-> "", at_issue |-> {},
             report |-> << >>]

\* Ok(Report::new(results))
OkResult(res) == [NoResult EXCEPT !.kind = "Ok", !.report = res]

\* An error returned with `?` before the loop.
ErrResult(kind, ids) == [NoResult EXCEPT !.kind = kind, !.at_issue = ids]

\* with_report losing the results accumulated so far.
with_report_Empty(source, cause, res) ==
    [NoResult EXCEPT !.kind = "Partial", !.source = source, !.cause = cause]

\* DatabaseError::with_report: Error::Partial{source, report}
with_report(source, cause, res) ==
    [NoResult EXCEPT !.kind = "Partial", !.source = source, !.cause = cause,
                     !.report = res]

Event(call, version, k, ok) ==
    [call |-> call, version |-> version, stmt |-> k, ok |-> ok]

\* A row of the history table as an earlier deployment left it.
OldRow(v, d) == to_applied([version |-> v, description |-> d], 0, NoMarker,
                           Sql([version |-> v]))

\* The history tables an operation can meet: any rows with distinct versions,
\* written for the current source or for files renamed or deleted since.
OldHistories ==
    {h \in SUBSET {OldRow(v, d) : v \in Versions, d \in Descriptions} :
        \A r1, r2 \in h : r1.version = r2.version => r1 = r2}

\* The source vectors from_migration_dir produces: sorted ascending by
\* version and validated to have no duplicate and no missing version, that
\* is versions 1 .. n; each file with or without the noTransaction marker.
\* The migrations in D are Rust migrations whose QueryBuilder reads the
\* database, the others are static SQL files.
SourcesWith(Ds) ==
    {[i \in 1 .. n |-> [version |-> i, description |-> SourceDesc,
                        no_tx |-> i \in N, dynamic |-> i \in D]] :
        n \in 0 .. MaxVersion, N \in SUBSET Versions, D \in Ds}

\* Static SQL migrations only.
Sources == SourcesWith({{}})

\* Sources in which any migration may build its query from the database.
DynSources == SourcesWith(SUBSET Versions)

NoPrevDry == [some |-> FALSE, target |-> None, report |-> << >>]

\* What one runner process holds: its position in the operation and the
\* values of its call.
local ==
    [pc |-> pc, op |-> op, target_version |-> target_version,
     dryrun |-> dryrun, skip_validate |-> skip_validate,
     unapplied |-> unapplied, stmt |-> stmt, query |-> query,
     applied |-> applied, results |-> results, result |-> result,
     log |-> log, runs |-> runs, prevApplyAll |-> prevApplyAll,
     prevDry |-> prevDry, prevDropped |-> prevDropped, history0 |-> history0,
     historyExists0 |-> historyExists0, committed0 |-> committed0]

InitOver(a, srcs) ==
    /\ app = a
    /\ all \in srcs
    /\ historyExists \in BOOLEAN
    /\ history \in (IF historyExists THEN OldHistories ELSE {{}})
    /\ committed = [v \in Versions |-> [k \in 1 .. NumStmts |-> 0]]
    /\ pc = "idle"
    /\ op = "none"
    /\ target_version = None
    /\ dryrun = FALSE
    /\ skip_validate = FALSE
    /\ unapplied = << >>
    /\ stmt = 0
    /\ query = << >>
    /\ applied = NoApplied
    /\ results = << >>
    /\ result = NoResult
    /\ log = << >>
    /\ runs = 0
    /\ prevApplyAll = FALSE
    /\ prevDry = NoPrevDry
    /\ prevDropped = FALSE
    /\ history0 = history
    /\ historyExists0 = historyExists
    /\ committed0 = committed
    /\ other = [local EXCEPT !.history0 = {}, !.historyExists0 = FALSE]
    /\ arg = None
    /\ ret = None

InitWith(a) == InitOver(a, Sources)

Init == InitWith("Runner")

\* ---------------------------------------------------------------- helpers
\* The operation returns r to its caller.
Return(r) ==
    /\ pc' = "idle"
    /\ result' = r
    /\ unapplied' = << >>
    /\ stmt' = 0
    /\ query' = << >>
    /\ applied' = NoApplied

\* Head of the `for migration in &set.migrations` loop over the remaining
\* migrations rem with the results res pushed so far.  Runner leaves the loop
\* at the first version past the target; Tern::apply and Tern::soft_apply
\* visit the whole set.
LoopHead(rem, res) ==
    IF \/ rem = << >>
       \/ (app = "Runner" /\ reached_target(target_version, Head(rem).version))
    THEN Return(OkResult(res))
    ELSE /\ pc' = "build"
         /\ unapplied' = rem
         /\ stmt' = 0
         /\ query' = << >>
         /\ applied' = NoApplied
         /\ result' = result

\* get_all_applied / create_history_if_not_exists ... can succeed.
TableReadable == historyExists

\* ------------------------------------------------------------- operations
\* A call of the operation o starts.
Begin(o, t, d, s) ==
    /\ pc = "idle"
    /\ runs < MaxRuns
    /\ op' = o
    /\ target_version' = t
    /\ dryrun' = d
    /\ skip_validate' = s
    /\ runs' = runs + 1
    /\ prevApplyAll' = (/\ op = "run_apply" /\ target_version = None
                         /\ ~dryrun /\ result.kind = "Ok")
    /\ prevDry' = IF op = "run_apply" /\ dryrun /\ result.kind = "Ok"
                  THEN [some |-> TRUE, target |-> target_version,
                        report |-> result.report]
                  ELSE NoPrevDry
    /\ prevDropped' = (op = "drop_history" /\ result.kind = "Ok")
    /\ history0' = history
    /\ historyExists0' = historyExists
    /\ committed0' = committed
    /\ results' = << >>
    /\ result' = NoResult
    /\ log' = << >>
    /\ unapplied' = << >>
    /\ stmt' = 0
    /\ query' = << >>
    /\ applied' = NoApplied
    /\ UNCHANGED <<app, all, other, arg, ret, dbVars>>

\* Runner::run_apply, Runner::run_soft_apply, Runner::list_applied are called.
RunnerCall ==
    /\ app = "Runner"
    /\ \/ \E t \in Targets, d \in BOOLEAN : Begin("run_apply", t, d, FALSE)
       \/ \E t \in Targets, d \in BOOLEAN : Begin("run_soft_apply", t, d, FALSE)
       \/ Begin("list_applied", None, FALSE, FALSE)
    /\ pc' = "check_history_table"

\* DROP TABLE, CREATE TABLE: the table is empty afterwards.
create_history_if_not_exists_Recreate(exists, rows) == {}

\* create_history_if_not_exists_query, CREATE TABLE IF NOT EXISTS: the rows
\* of the table afterwards.
create_history_if_not_exists(exists, rows) == IF exists THEN rows ELSE {}

\* MigrationContext::check_history_table.
CheckHistoryTable ==
    /\ pc = "check_history_table"
    /\ \E ok \in BOOLEAN :
         /\ log' = Append(log, Event("create_history_if_not_exists", 0, 0, ok))
         /\ IF ok
            THEN /\ historyExists' = TRUE
                 /\ history' = create_history_if_not_exists(historyExists, history)
                 /\ pc' = "validate_source"
                 /\ UNCHANGED <<result, unapplied, stmt, query, applied>>
            ELSE /\ Return(ErrResult("Execute", {}))
                 /\ UNCHANGED <<historyExists, history>>
    /\ UNCHANGED <<app, all, other, arg, ret, committed, results, callVars>>

\* validate_source: previously_applied, then check_migrations_in_sync.
ValidateSource ==
    /\ pc = "validate_source"
    /\ \E ok \in {TableReadable, FALSE} :
         /\ log' = Append(log, Event("get_all_applied", 0, 0, ok))
         /\ IF ~ok THEN Return(ErrResult("Execute", {}))
            ELSE LET appliedIds == {IdOfApplied(r) : r \in Range(RowsInOrder(history))}
                     sourceIds == Range(migration_ids(migration_set(all, None)))
                     source_not_found == check_migrations_in_sync(appliedIds, sourceIds)
                 IN  IF source_not_found # {}
                     THEN Return(ErrResult("OutOfSync", source_not_found))
                     ELSE /\ pc' = IF app = "Runner" /\ op = "list_applied"
                                   THEN "list_applied" ELSE "latest_version"
                          /\ UNCHANGED <<result, unapplied, stmt, query, applied>>
    /\ UNCHANGED <<app, all, other, arg, ret, dbVars, results, callVars>>

\* latest_version, validate_target and, in Runner, the selection
\* `self.context.migration_set(last_applied)`.
LatestVersion ==
    /\ pc = "latest_version"
    /\ \E ok \in {TableReadable, FALSE} :
         /\ log' = Append(log, Event("get_all_applied", 0, 0, ok))
         /\ IF ~ok THEN Return(ErrResult("Execute", {}))
            ELSE LET last_applied == latest_version(RowsInOrder(history))
                 IN  IF ~validate_target(all, last_applied, target_version)
                     THEN Return(ErrResult("Invalid", {}))
                     ELSE IF app = "Runner"
                          THEN LoopHead(migration_set(all, last_applied), results)
                          ELSE /\ pc' = "get_migration_set"
                               /\ UNCHANGED <<result, unapplied, stmt, query, applied>>
    /\ UNCHANGED <<app, all, other, arg, ret, dbVars, results, callVars>>

\* list_applied: project previously_applied() into results.
ListApplied ==
    /\ pc = "list_applied"
    /\ \E ok \in {TableReadable, FALSE} :
         /\ log' = Append(log, Event("get_all_applied", 0, 0, ok))
         /\ IF ~ok THEN /\ Return(ErrResult("Execute", {}))
                        /\ UNCHANGED results
            ELSE LET rows == RowsInOrder(history)
                     rep == [i \in 1 .. Len(rows) |-> from_applied(rows[i], None)]
                 IN  /\ results' = rep
                     /\ Return(OkResult(rep))
    /\ UNCHANGED <<app, all, other, arg, ret, dbVars, callVars>>

\* The result of the failing migration is pushed before the error returns.
LoopError_PushFailed(cause) ==
    with_report(cause, cause,
                Append(results, from_unapplied(Head(unapplied), Sql(Head(unapplied)))))

\* The Partial error of a failure inside the loop.  In a real apply the
\* error of context.apply is first wrapped by tern_migration_result.
LoopError(cause) ==
    IF op \in {"run_apply", "apply"} /\ ~dryrun
    THEN with_report("ExecuteMigration", cause, results)
    ELSE with_report(cause, cause, results)

\* The error is dropped and the loop goes on to the next migration.
FailLoop_Continue(cause) == LoopHead(Tail(unapplied), results)

\* The failed migration is tried again.
FailLoop_Retry(cause) == LoopHead(unapplied, results)

\* The `?` after with_report: the loop stops and the operation returns the
\* Partial error.
FailLoop(cause) == Return(LoopError(cause))

\* The soft-applied record carries a measured duration.
soft_applied_Timed(m, marker, content) == to_applied(m, 1, marker, content)

\* `migration.to_applied(0, Utc::now(), &content)` of run_soft_apply.
soft_applied(m, marker, content) == to_applied(m, 0, marker, content)

\* The dry-run flag is ignored: every run executes and records.
real_run_Always(dry) == TRUE

\* `if dryrun { build only } else { apply }` of run_apply and `if !dryrun`
\* of run_soft_apply: the call goes on to the executor.
real_run(dry) == ~dry

\* Migration::build for the current migration, and what follows it without
\* another round trip: the dry-run result, or the soft-applied record.
Build ==
    /\ pc = "build"
    /\ LET m == Head(unapplied)
           built == build(m, committed)
       IN \E ok \in BOOLEAN :
            /\ log' = Append(log, Event("build", m.version, 0, ok))
            /\ IF ~ok
               THEN /\ FailLoop("ResolveQuery")
                    /\ UNCHANGED results
               ELSE IF op \in {"run_apply", "apply"}
               THEN IF ~real_run(dryrun)
                    THEN /\ results' = Append(results, from_unapplied(m, built))
                         /\ LoopHead(Tail(unapplied), results')
                    ELSE /\ pc' = IF m.no_tx THEN "apply_no_tx" ELSE "apply_tx"
                         /\ stmt' = 1
                         /\ query' = built
                         /\ UNCHANGED <<results, result, unapplied, applied>>
               ELSE LET marker == IF app = "Runner" THEN SoftMarker ELSE NoMarker
                        soft == soft_applied(m, marker, built)
                    IN  IF ~real_run(dryrun)
                        THEN /\ results' = Append(results, from_soft_applied(soft, dryrun))
                             /\ LoopHead(Tail(unapplied), results')
                        ELSE /\ pc' = "insert_applied_migration"
                             /\ query' = built
                             /\ applied' = soft
                             /\ UNCHANGED <<results, result, unapplied, stmt>>
    /\ UNCHANGED <<app, all, other, arg, ret, dbVars, callVars>>

\* The transaction is skipped when the migration is already in effect.
apply_tx_Once(db, v, ok) ==
    IF ok /\ db[v][NumStmts] = 0
    THEN [db EXCEPT ![v] = [k \in 1 .. NumStmts |-> @[k] + 1]]
    ELSE db

\* A failed transaction keeps the effects of the statement that ran first.
apply_tx_NoRollback(db, v, ok) ==
    IF ok THEN [db EXCEPT ![v] = [k \in 1 .. NumStmts |-> @[k] + 1]]
    ELSE [db EXCEPT ![v][1] = @ + 1]

\* The database after SqlxExecutor::apply_tx ran the query of V<v>: begin,
\* execute, commit makes every statement take effect; on an error the
\* transaction is dropped uncommitted, which rolls it back.
apply_tx(db, v, ok) ==
    IF ok THEN [db EXCEPT ![v] = [k \in 1 .. NumStmts |-> @[k] + 1]]
    ELSE db

\* The first statement call runs the whole query text.
execute_WholeQuery(db, v, k) ==
    [db EXCEPT ![v] = [j \in 1 .. NumStmts |-> @[j] + 1]]

\* `self.pool.execute(sqlx::raw_sql(statement))` of apply_no_tx: statement k
\* of V<v> takes effect on its own.
execute(db, v, k) == [db EXCEPT ![v][k] = @ + 1]

\* Executor::apply_tx: begin, execute the whole query, commit; then
\* MigrationContext::apply builds the AppliedMigration.
ApplyTx ==
    /\ pc = "apply_tx"
    /\ LET m == Head(unapplied)
       IN \E ok \in BOOLEAN :
            /\ log' = Append(log, Event("apply_tx", m.version, 0, ok))
            /\ committed' = apply_tx(committed, m.version, ok)
            /\ IF ok
               THEN /\ \E d \in Elapsed :
                         applied' = to_applied(m, d, NoMarker, query)
                    /\ pc' = "insert_applied_migration"
                    /\ UNCHANGED <<result, unapplied, stmt, query>>
               ELSE FailLoop("ExecuteMigration")
    /\ UNCHANGED <<app, all, other, arg, ret, historyExists, history, results, callVars>>

\* Executor::apply_no_tx: one iteration of the loop over split_statements().
ApplyNoTx ==
    /\ pc = "apply_no_tx"
    /\ LET m == Head(unapplied)
       IN \E ok \in BOOLEAN :
            /\ log' = Append(log, Event("apply_no_tx", m.version, stmt, ok))
            /\ IF ok
               THEN /\ committed' = execute(committed, m.version, stmt)
                    /\ IF stmt < NumStmts
                       THEN /\ stmt' = stmt + 1
                            /\ UNCHANGED <<pc, applied>>
                       ELSE /\ \E d \in Elapsed :
                                 applied' = to_applied(m, d, NoMarker, query)
                            /\ pc' = "insert_applied_migration"
                            /\ UNCHANGED stmt
                    /\ UNCHANGED <<result, unapplied, query>>
               ELSE /\ FailLoop("ExecuteMigration")
                    /\ UNCHANGED committed
    /\ UNCHANGED <<app, all, other, arg, ret, historyExists, history, results, callVars>>

\* The version column has no key: every insert is accepted.
InsertAccepted_NoKey(rows, row) == TRUE

\* insert_into_history_query: a plain INSERT, which the primary key on
\* version rejects when the version already has a row.
InsertAccepted(rows, row) == \A r \in rows : r.version # row.version

\* The insert leaves only the new row in the table.
insert_applied_migration_Truncate(rows, row) == {row}

\* SqlxExecutor::insert_applied_migration with an accepted row: the rows of
\* the table afterwards.
insert_applied_migration(rows, row) == rows \cup {row}

\* Executor::insert_applied_migration, then `results.push(result)`.
InsertApplied ==
    /\ pc = "insert_applied_migration"
    /\ LET m == Head(unapplied)
       IN \E ok \in {TableReadable /\ InsertAccepted(history, applied), FALSE} :
            /\ log' = Append(log, Event("insert_applied_migration", m.version, 0, ok))
            /\ IF ok
               THEN /\ history' = insert_applied_migration(history, applied)
                    /\ results' = Append(results,
                          IF op \in {"run_apply", "apply"}
                          THEN from_applied(applied, Some(m.no_tx))
                          ELSE from_soft_applied(applied, dryrun))
                    /\ LoopHead(Tail(unapplied), results')
               ELSE /\ FailLoop("Execute")
                    /\ UNCHANGED <<history, results>>
    /\ UNCHANGED <<app, all, other, arg, ret, historyExists, committed, callVars>>

\* Iterator::filter(|m| m.version() > latest)
RECURSIVE FilterGt(_, _)
FilterGt(vs, latest) ==
    IF vs = << >> THEN << >>
    ELSE IF Head(vs).version > latest
         THEN <<Head(vs)>> \o FilterGt(Tail(vs), latest)
         ELSE FilterGt(Tail(vs), latest)

\* Tern::get_migration_set with the value latest_version() returned.
get_migration_set(src, target, latest) ==
    LET set == migration_set(src, target)
    IN  IF ~latest.some THEN set
        ELSE MigrationSetNew(FilterGt(set, latest.v))

\* Tern::run with a MigrateOp: built with any target, dry-run flag and
\* skip_validate flag.
TernCall ==
    /\ app = "Tern"
    /\ \E o \in {"apply", "soft_apply", "list_applied"}, t \in Targets,
          d \in BOOLEAN, s \in BOOLEAN :
         /\ Begin(o, t, d, s)
         /\ pc' = IF s THEN "get_migration_set" ELSE "check_history_table"

\* Tern::get_migration_set, then the dispatch on the operation.
TernGetMigrationSet ==
    /\ pc = "get_migration_set"
    /\ \E ok \in {TableReadable, FALSE} :
         /\ log' = Append(log, Event("get_all_applied", 0, 0, ok))
         /\ IF ~ok THEN Return(ErrResult("Execute", {}))
            ELSE LET latest == latest_version(RowsInOrder(history))
                     set == get_migration_set(all, target_version, latest)
                 IN  IF op = "list_applied"
                     THEN /\ pc' = "list_applied"
                          /\ UNCHANGED <<result, unapplied, stmt, query, applied>>
                     ELSE LoopHead(set, results)
    /\ UNCHANGED <<app, all, other, arg, ret, dbVars, results, callVars>>

Next ==
    \/ RunnerCall
    \/ CheckHistoryTable
    \/ ValidateSource
    \/ LatestVersion
    \/ ListApplied
    \/ Build
    \/ ApplyTx
    \/ ApplyNoTx
    \/ InsertApplied

Spec == Init /\ [][Next]_vars

\* The steps of a running operation: each is one executor call, or the build
\* of one query, and what the operation does with its result.
Step ==
    \/ CheckHistoryTable
    \/ ValidateSource
    \/ LatestVersion
    \/ ListApplied
    \/ Build
    \/ ApplyTx
    \/ ApplyNoTx
    \/ InsertApplied

\* One operation of the Runner is called, on any database.
FirstCall == RunnerCall /\ runs = 0

NextFair ==
    \/ FirstCall
    \/ Step

\* Every executor call and every build returns, so a running operation takes
\* its next step; when the operation is called is up to the caller.
FairSpec == Init /\ [][NextFair]_vars /\ WF_vars(Step)

\* The Runner over sources with dynamically built queries.
InitDyn == InitOver("Runner", DynSources)

SpecDyn == InitDyn /\ [][Next]_vars

\* Runner::init_history is called.
InitHistoryCall ==
    /\ app = "Runner"
    /\ Begin("init_history", None, FALSE, FALSE)
    /\ pc' = "init_history"

\* Runner::init_history: MigrationContext::check_history_table and nothing
\* else; its TernResult<()> is returned as it is.
InitHistory ==
    /\ pc = "init_history"
    /\ \E ok \in BOOLEAN :
         /\ log' = Append(log, Event("create_history_if_not_exists", 0, 0, ok))
         /\ IF ok
            THEN /\ historyExists' = TRUE
                 /\ history' = create_history_if_not_exists(historyExists, history)
                 /\ Return(OkResult(<< >>))
            ELSE /\ Return(ErrResult("Execute", {}))
                 /\ UNCHANGED <<historyExists, history>>
    /\ UNCHANGED <<app, all, other, arg, ret, committed, results, callVars>>

\* The Runner with init_history among its operations.
NextOps ==
    \/ Next
    \/ InitHistoryCall
    \/ InitHistory

SpecOps == Init /\ [][NextOps]_vars

\* Two Runner processes on the same database: the scheduler lets the other
\* process take the next steps.  Nothing in Runner or MigrationContext takes
\* a lock, so the processes interleave at every executor call.  A process
\* whose call has returned has no step left to take.
Switch ==
    /\ ~(other.pc = "idle" /\ other.runs > 0)
    /\ other' = local
    /\ pc' = other.pc
    /\ op' = other.op
    /\ target_version' = other.target_version
    /\ dryrun' = other.dryrun
    /\ skip_validate' = other.skip_validate
    /\ unapplied' = other.unapplied
    /\ stmt' = other.stmt
    /\ query' = other.query
    /\ applied' = other.applied
    /\ results' = other.results
    /\ result' = other.result
    /\ log' = other.log
    /\ runs' = other.runs
    /\ prevApplyAll' = other.prevApplyAll
    /\ prevDry' = other.prevDry
    /\ prevDropped' = other.prevDropped
    /\ history0' = other.history0
    /\ historyExists0' = other.historyExists0
    /\ committed0' = other.committed0
    /\ UNCHANGED <<app, all, arg, ret, dbVars>>

\* Runner::run_apply_all, which is run_apply(None, dryrun), is called by the
\* process taking steps; each of the two processes makes one call.
run_apply_all ==
    /\ app = "Runner"
    /\ runs = 0
    /\ \E d \in BOOLEAN : Begin("run_apply", None, d, FALSE)
    /\ pc' = "check_history_table"

NextConc ==
    \/ run_apply_all
    \/ Switch
    \/ CheckHistoryTable
    \/ ValidateSource
    \/ LatestVersion
    \/ Build
    \/ ApplyTx
    \/ ApplyNoTx
    \/ InsertApplied

SpecConc == Init /\ [][NextConc]_vars

\* --------------------------------------------- functions called on their own
\* Everything but the argument and the value of the call.
runVars == <<app, all, other, dbVars, pc, unapplied, stmt, query, applied,
             results, result, log, callVars>>

\* A function is about to be called; no runner is involved.
InitCall ==
    /\ InitOver("none", {<< >>})
    /\ ~historyExists

\* Longest vector handed to MigrationSet::new.
MaxLen == 3

\* Migrations as any implementation of the Migration trait can return them:
\* any version, any description.
AnyMigrations ==
    {[version |-> v, description |-> d, no_tx |-> FALSE, dynamic |-> FALSE] :
        v \in Versions, d \in Descriptions}

RECURSIVE SeqsUpTo(_, _)
\* The sequences over S of length at most n.
SeqsUpTo(S, n) ==
    IF n = 0 THEN {<< >>}
    ELSE LET shorter == SeqsUpTo(S, n - 1)
         IN  shorter \cup {Append(s, x) : s \in shorter, x \in S}

\* The vectors of at most n migrations a caller can hand to the public
\* MigrationSet::new: in any order, with or without repeated versions.
Vecs(n) == SeqsUpTo(AnyMigrations, n)

\* A caller picks the vector.
PickVec ==
    /\ ~arg.some
    /\ \E vs \in Vecs(MaxLen) : arg' = Some(vs)
    /\ UNCHANGED <<runVars, ret>>

\* MigrationSet::new(vs)
MigrationSet_new ==
    /\ arg.some /\ ~ret.some
    /\ ret' = Some(MigrationSetNew(arg.v))
    /\ UNCHANGED <<runVars, arg>>

NextSet ==
    \/ PickVec
    \/ MigrationSet_new

SpecSet == InitCall /\ [][NextSet]_vars

\* ---------------------------------------------------- Query::split_statements
\* Longest query text, in characters.
MaxChars == 6

\* The characters of a query text: a letter of SQL, the statement terminator,
\* blank and line feed, and the characters comments are written with.
Chars == {"a", ";", " ", "\n", "-", "/", "*"}

\* char::is_whitespace
is_whitespace(c) == c \in {" ", "\n"}

RECURSIVE trim_start(_)
\* str::trim_start
trim_start(s) ==
    IF s = << >> THEN s
    ELSE IF is_whitespace(Head(s)) THEN trim_start(Tail(s)) ELSE s

RECURSIVE trim_end(_)
\* str::trim_end
trim_end(s) ==
    IF s = << >> THEN s
    ELSE IF is_whitespace(s[Len(s)]) THEN trim_end(SubSeq(s, 1, Len(s) - 1))
         ELSE s

\* str::trim
trim(s) == trim_end(trim_start(s))

\* str::starts_with
starts_with(s, p) == Len(s) >= Len(p) /\ SubSeq(s, 1, Len(p)) = p

\* str::ends_with
ends_with(s, p) ==
    Len(s) >= Len(p) /\ SubSeq(s, Len(s) - Len(p) + 1, Len(s)) = p

\* str::find: the first position where p occurs in s, 0 for None.
find(s, p) ==
    LET at == {i \in 1 .. (Len(s) - Len(p) + 1) : SubSeq(s, i, i + Len(p) - 1) = p}
    IN  IF at = {} THEN 0 ELSE CHOOSE i \in at : \A j \in at : i <= j

RECURSIVE lines(_)
\* str::lines: the text between line feeds; a final line feed ends the last
\* line and starts no empty one.
lines(s) ==
    IF s = << >> THEN << >>
    ELSE LET i == find(s, <<"\n">>)
         IN  IF i = 0 THEN <<s>>
             ELSE <<SubSeq(s, 1, i - 1)>> \o lines(SubSeq(s, i + 1, Len(s)))

RECURSIVE join(_, _)
\* [String]::join
join(ls, sep) ==
    IF ls = << >> THEN << >>
    ELSE IF Len(ls) = 1 THEN ls[1]
    ELSE ls[1] \o sep \o join(Tail(ls), sep)

RECURSIVE replace_block_comments(_)
\* Regex `\/\*(?s).*?(?-s)\*\/` with replace_all(.., ""): every leftmost
\* "/*" up to the nearest "*/" after it is removed.
replace_block_comments(s) ==
    LET i == find(s, <<"/", "*">>)
    IN  IF i = 0 THEN s
        ELSE LET rest == SubSeq(s, i + 2, Len(s))
                 j == find(rest, <<"*", "/">>)
             IN  IF j = 0 THEN s
                 ELSE SubSeq(s, 1, i - 1)
                          \o replace_block_comments(SubSeq(rest, j + 2, Len(rest)))

\* The closure of the `.map` in sanitize: cut the line at the first "--".
strip_trailing_comment(line) ==
    LET at == find(line, <<"-", "-">>)
        offset == IF at = 0 THEN Len(line) ELSE at - 1
    IN  trim_end(SubSeq(line, 1, offset))

\* Query::sanitize
sanitize(sql) ==
    LET kept == SelectSeq(lines(trim(sql)),
                          LAMBDA line : \/ ~starts_with(trim(line), <<"-", "-">>)
                                        \/ trim(line) = << >>)
        mapped == [i \in 1 .. Len(kept) |-> strip_trailing_comment(kept[i])]
        stripped == replace_block_comments(join(mapped, <<"\n">>))
    IN  IF ~ends_with(stripped, <<";">>) THEN stripped \o <<";">> ELSE stripped

RECURSIVE fold_statements(_, _, _)
\* The try_fold of split_statements over the lines ls, with the buffer buf
\* and the statements pushed so far; what is left in the buffer at the end
\* is not pushed.
fold_statements(ls, buf, statements) ==
    IF ls = << >> THEN statements
    ELSE LET line == Head(ls)
         IN  IF trim(line) = << >>
             THEN fold_statements(Tail(ls), buf, statements)
             ELSE LET written == buf \o line \o <<"\n">>
                  IN  IF ends_with(line, <<";">>)
                      THEN fold_statements(Tail(ls), << >>,
                                           Append(statements, written))
                      ELSE fold_statements(Tail(ls), written, statements)

\* Query::split_statements
split_statements(sql) == fold_statements(lines(sanitize(sql)), << >>, << >>)

\* The query texts: every string of at most n characters.
Queries(n) == SeqsUpTo(Chars, n)

\* A Query is made of some text.
QueryNew ==
    /\ ~arg.some
    /\ \E sql \in Queries(MaxChars) : arg' = Some(sql)
    /\ UNCHANGED <<runVars, ret>>

\* query.split_statements()
SplitStatements ==
    /\ arg.some /\ ~ret.some
    /\ ret' = Some(split_statements(arg.v))
    /\ UNCHANGED <<runVars, arg>>

NextSplit ==
    \/ QueryNew
    \/ SplitStatements

SpecSplit == InitCall /\ [][NextSplit]_vars

\* ------------------------------------------- check_migrations_in_sync alone
\* The sets of migration ids a HashSet<MigrationId> can hold here: ids of
\* history rows or of source files, one per version.
IdSets ==
    {S \in SUBSET {MigrationId(v, d) : v \in Versions, d \in Descriptions} :
        \A a, b \in S : a.version = b.version => a = b}

RECURSIVE Orderings(_)
\* The sequences that list every element of S once.
Orderings(S) ==
    IF S = {} THEN {<< >>}
    ELSE UNION {{<<x>> \o s : s \in Orderings(S \ {x})} : x \in S}

\* `applied.difference(&source).collect()` into a Vec: the elements of the
\* difference in the iteration order of the HashSet `applied`, which depends
\* on the hasher's random keys; any order can come out.
source_not_found(applied_ids, source_ids) ==
    Orderings(check_migrations_in_sync(applied_ids, source_ids))

\* The caller has the ids of the history rows and of the source.
CollectIds ==
    /\ ~arg.some
    /\ \E applied_ids \in IdSets, source_ids \in IdSets :
         arg' = Some([applied |-> applied_ids, source |-> source_ids])
    /\ UNCHANGED <<runVars, ret>>

\* check_migrations_in_sync(applied, source)
CheckMigrationsInSync ==
    /\ arg.some /\ ~ret.some
    /\ \E at_issue \in source_not_found(arg.v.applied, arg.v.source) :
         ret' = Some(IF at_issue = << >> THEN OkResult(<< >>)
                     ELSE [NoResult EXCEPT !.kind = "OutOfSync",
                                           !.at_issue = at_issue])
    /\ UNCHANGED <<runVars, arg>>

NextSync ==
    \/ CollectIds
    \/ CheckMigrationsInSync

SpecSync == InitCall /\ [][NextSync]_vars

\* ------------------------------------------ the derive macro's Validator
\* The versions a file name V<digits>__<name>.sql can carry here: the regex
\* takes any run of digits, 0 included.
FileVersions == 0 .. MaxVersion + 1

\* The (version, description) pairs of the files of a migration directory.
FileIds == {MigrationId(v, d) : v \in FileVersions, d \in Descriptions}

\* Validator::new: the ids sorted by version.
Validator_new(ids) == SortByVersion(ids)

\* SourceError::Version
VersionError(offending_versions) ==
    [kind |-> "Version", offending_versions |-> offending_versions]

SourceOk == [kind |-> "Ok", offending_versions |-> << >>]

RECURSIVE offending(_, _)
\* The loop of duplicate_versions: a version is pushed each time the map
\* already holds it.
offending(ids, seen) ==
    IF ids = << >> THEN << >>
    ELSE (IF Head(ids).version \in seen THEN <<Head(ids).version>> ELSE << >>)
             \o offending(Tail(ids), seen \cup {Head(ids).version})

\* Validator::duplicate_versions
duplicate_versions(ids) ==
    IF offending(ids, {}) # << >> THEN VersionError(offending(ids, {}))
    ELSE SourceOk

\* The loop of missing_versions: the first id whose version is not its
\* position is reported.
first_unexpected(ids) ==
    IF \E ix \in 1 .. Len(ids) : ids[ix].version # ix
    THEN LET ix == CHOOSE i \in 1 .. Len(ids) :
                       /\ ids[i].version # i
                       /\ \A j \in 1 .. i - 1 : ids[j].version = j
         IN  VersionError(<<ids[ix].version>>)
    ELSE SourceOk

\* Validator::missing_versions: the loop runs only when the last version is
\* not the number of ids.
missing_versions(ids) ==
    IF ids # << >> /\ ids[Len(ids)].version # Len(ids)
    THEN first_unexpected(ids)
    ELSE SourceOk

\* Validator::validate
validate(ids) ==
    IF duplicate_versions(ids).kind # "Ok" THEN duplicate_versions(ids)
    ELSE missing_versions(ids)

\* The files found in the migration directory, in the order read.
ParseSources ==
    /\ ~arg.some
    /\ \E ids \in SeqsUpTo(FileIds, MaxLen) : arg' = Some(ids)
    /\ UNCHANGED <<runVars, ret>>

\* Validator::new(ids).validate()
Validate ==
    /\ arg.some /\ ~ret.some
    /\ ret' = Some(validate(Validator_new(arg.v)))
    /\ UNCHANGED <<runVars, arg>>

NextValidate ==
    \/ ParseSources
    \/ Validate

SpecValidate == InitCall /\ [][NextValidate]_vars

\* ------------------------------------------------- derrick: run_validation
\* The earlier crates' vectors of source and applied migrations, of which
\* the validation reads the versions only.
VersionVecs(n) == SeqsUpTo({[version |-> v] : v \in Versions}, n)

\* MigrationSource::order_by_asc, AppliedMigration::order_by_asc
order_by_asc(ms) == SortByVersion(ms)

VersionMissing(v) == [kind |-> "VersionMissing", version |-> v]

ValidationOk == [kind |-> "Ok", version |-> 0]

\* Validate::validate_pair
validate_pair(src, hist) ==
    IF src.version # hist.version THEN VersionMissing(hist.version)
    ELSE ValidationOk

RECURSIVE validate_from(_, _, _)
\* The iteration over the applied migrations from index ix on, collected
\* into a Result: the first error ends it.
validate_from(sorted_source, existing, ix) ==
    IF ix > Len(existing) THEN ValidationOk
    ELSE IF ix > Len(sorted_source) THEN VersionMissing(existing[ix].version)
    ELSE IF validate_pair(sorted_source[ix], existing[ix]).kind # "Ok"
         THEN validate_pair(sorted_source[ix], existing[ix])
         ELSE validate_from(sorted_source, existing, ix + 1)

\* Validate::run_validation
run_validation(source, applied_vec) ==
    validate_from(order_by_asc(source), order_by_asc(applied_vec), 1)

\* The migrate backend has the source and the applied migrations.
ValidateSourceCall ==
    /\ ~arg.some
    /\ \E source \in VersionVecs(MaxLen), applied_vec \in VersionVecs(MaxLen) :
         arg' = Some([source |-> source, applied |-> applied_vec])
    /\ UNCHANGED <<runVars, ret>>

\* Validate::run_validation(source, applied)
RunValidation ==
    /\ arg.some /\ ~ret.some
    /\ ret' = Some(run_validation(arg.v.source, arg.v.applied))
    /\ UNCHANGED <<runVars, arg>>

NextRunValidation ==
    \/ ValidateSourceCall
    \/ RunValidation

SpecRunValidation == InitCall /\ [][NextRunValidation]_vars

\* --------------------------------------------- tern-cli: get_latest_version
\* The directories of at most n migration files, each named by a version and
\* a description.
Directories(n) == {S \in SUBSET FileIds : Cardinality(S) <= n}

\* Path::read_dir: the entries of the directory, in an order the platform
\* and the file system choose.
read_dir(dir) == Orderings(dir)

RECURSIVE try_fold(_, _)
\* The closure of try_fold over the entries: a version greater than 0
\* becomes the accumulator, version 0 leaves it.
try_fold(acc, entries) ==
    IF entries = << >> THEN acc
    ELSE try_fold(IF Head(entries).version > 0 THEN Head(entries).version
                  ELSE acc,
                  Tail(entries))

\* get_latest_version over the entries as read
get_latest_version(entries) == try_fold(0, entries)

\* new_filename: the version in the name of the new file.
new_version(latest) == latest + 1

\* `migrate new` reads the source directory.
ReadDir ==
    /\ ~arg.some
    /\ \E dir \in Directories(MaxLen) :
         \E entries \in read_dir(dir) : arg' = Some(entries)
    /\ UNCHANGED <<runVars, ret>>

\* get_latest_version(source) and the version new_filename derives from it.
GetLatestVersion ==
    /\ arg.some /\ ~ret.some
    /\ ret' = Some([latest |-> get_latest_version(arg.v),
                    new |-> new_version(get_latest_version(arg.v))])
    /\ UNCHANGED <<runVars, arg>>

NextNew ==
    \/ ReadDir
    \/ GetLatestVersion

SpecNew == InitCall /\ [][NextNew]_vars

\* The Tern application over the same context and database.
InitTern == InitWith("Tern")

NextTern ==
    \/ TernCall
    \/ CheckHistoryTable
    \/ ValidateSource
    \/ LatestVersion
    \/ TernGetMigrationSet
    \/ ListApplied
    \/ Build
    \/ ApplyTx
    \/ ApplyNoTx
    \/ InsertApplied

SpecTern == InitTern /\ [][NextTern]_vars

\* ------------------------------------------------- from an empty history
\* A database whose history table holds no row, or that has no history table
\* yet.
InitEmpty == Init /\ history = {}

SpecEmpty == InitEmpty /\ [][Next]_vars

\* The Tern application on such a database.
InitTernEmpty == InitTern /\ history = {}

SpecTernEmpty == InitTernEmpty /\ [][NextTern]_vars

\* ------------------------------------------------------------ drop_history
\* A drop that leaves the table as it is.
drop_history_Noop(exists) == exists

\* drop_history_query, DROP TABLE IF EXISTS: whether the table exists
\* afterwards.
drop_history(exists) == FALSE

\* Runner::drop_history: MigrationContext::drop_history_table and nothing
\* else, one executor call whose TernResult<()> is returned as it is.  The
\* call is not counted in runs, which bounds the operations on migrations.
DropHistory ==
    /\ app = "Runner"
    /\ pc = "idle"
    /\ op' = "drop_history"
    /\ target_version' = None
    /\ dryrun' = FALSE
    /\ skip_validate' = FALSE
    /\ prevApplyAll' = FALSE
    /\ prevDry' = NoPrevDry
    /\ prevDropped' = (op = "drop_history" /\ result.kind = "Ok")
    /\ history0' = history
    /\ historyExists0' = historyExists
    /\ committed0' = committed
    /\ results' = << >>
    /\ \E ok \in BOOLEAN :
         /\ log' = <<Event("drop_history", 0, 0, ok)>>
         /\ IF ok
            THEN /\ historyExists' = drop_history(historyExists)
                 /\ history' = IF drop_history(historyExists) THEN history ELSE {}
                 /\ Return(OkResult(<< >>))
            ELSE /\ Return(ErrResult("Execute", {}))
                 /\ UNCHANGED <<historyExists, history>>
    /\ UNCHANGED <<app, all, other, arg, ret, committed, runs>>

\* The Runner with drop_history among its operations, on a database whose
\* history table starts empty.
NextDrop ==
    \/ Next
    \/ DropHistory

SpecDrop == InitEmpty /\ [][NextDrop]_vars

\* ------------------------------------------------------------- properties
SourceVersions == {all[i].version : i \in 1 .. Len(all)}
SourceIds == {MigrationId(all[i].version, all[i].description) : i \in 1 .. Len(all)}

\* Source versions greater than every version the history table held when
\* the current call started, in ascending order.
Above0 == {v \in SourceVersions : \A r \in history0 : r.version < v}
Expected0 == SeqOfSet(Above0)

\* The same, up to and including the target t.
Through0(t) == {v \in Above0 : v <= t}

MigrationCalls == {"build", "apply_tx", "apply_no_tx", "insert_applied_migration"}
MigrationEvents == SelectSeq(log, LAMBDA e : e.call \in MigrationCalls)

\* Versions whose query was built, executed to completion, recorded by the
\* current call, in the order it happened.
BuiltVersions ==
    VersionsOf(SelectSeq(log, LAMBDA e : e.call = "build" /\ e.ok))
ExecutedVersions ==
    VersionsOf(SelectSeq(log, LAMBDA e :
        /\ e.ok
        /\ \/ e.call = "apply_tx"
           \/ (e.call = "apply_no_tx" /\ e.stmt = NumStmts)))
RecordedVersions ==
    VersionsOf(SelectSeq(log, LAMBDA e : e.call = "insert_applied_migration" /\ e.ok))

NoFailedCall == \A i \in 1 .. Len(log) : log[i].ok

Returned(o) == pc = "idle" /\ op = o

\* C1: across any sequence of run_apply calls by one runner over a fixed
\* source, each migration's query is executed to successful completion at
\* most once.
C1_ExecutedAtMostOnce ==
    \A v \in Versions : committed[v][NumStmts] <= 1

\* C2: between calls, a transactional (no_tx = false) migration whose effects
\* are committed has a history row for its version: the effects and the row
\* are committed together.
C2_TxCommitsWithHistoryRow ==
    pc = "idle" =>
        \A i \in 1 .. Len(all) :
            (~all[i].no_tx /\ committed[all[i].version][NumStmts] > 0)
                => \E r \in history : r.version = all[i].version

\* C3: a run_apply(None, false) in which no step fails executes exactly the
\* source migrations above the latest history version, in ascending order,
\* reports one Applied result for each in that order, and leaves the history
\* table with its previous rows plus one row per applied migration.
C3_ApplyAllUnapplied ==
    (Returned("run_apply") /\ target_version = None /\ ~dryrun /\ result.kind = "Ok")
        => /\ BuiltVersions = Expected0
           /\ ExecutedVersions = Expected0
           /\ RecordedVersions = Expected0
           /\ VersionsOf(result.report) = Expected0
           /\ \A i \in 1 .. Len(result.report) : result.report[i].state = "Applied"
           /\ history0 \subseteq history
           /\ {r.version : r \in history \ history0} = Above0
           /\ Cardinality(history) = Cardinality(history0) + Len(Expected0)
           /\ committed = [v \in Versions |-> [k \in 1 .. NumStmts |->
                              committed0[v][k] + (IF v \in Above0 THEN 1 ELSE 0)]]

\* C3 witness: V1 was in the history, V2 has been applied and reported.
C3_Witness ==
    /\ Returned("run_apply") /\ target_version = None /\ ~dryrun
    /\ result.kind = "Ok"
    /\ history0 # {}
    /\ Len(result.report) >= 1
    /\ history # history0

\* C4: the call after a successful run_apply(None, false), itself a
\* run_apply(None, false), builds, executes and records nothing, leaves the
\* history rows and the database as they were, and returns an empty Report
\* unless one of its own executor calls fails.
C4_SecondApplyAllIsEmpty ==
    (prevApplyAll /\ op = "run_apply" /\ target_version = None /\ ~dryrun)
        => /\ MigrationEvents = << >>
           /\ history = history0
           /\ committed = committed0
           /\ (pc = "idle" /\ NoFailedCall) => result = OkResult(<< >>)

\* C4 witness: the first call executed a migration, the second has returned Ok.
C4_Witness ==
    /\ prevApplyAll
    /\ Returned("run_apply") /\ target_version = None /\ ~dryrun
    /\ result.kind = "Ok"
    /\ \E v \in Versions : committed[v][NumStmts] > 0

\* C5: run_apply(Some(T), _) and run_soft_apply(Some(T), _) build, execute
\* and record no migration outside last_applied < version <= T, and a call
\* that returns Ok has processed exactly those, in ascending order.
C5_TargetSelection ==
    (op \in {"run_apply", "run_soft_apply"} /\ target_version.some)
        => LET range == Through0(target_version.v)
               wanted == SeqOfSet(range)
           IN  /\ \A i \in 1 .. Len(MigrationEvents) :
                     MigrationEvents[i].version \in range
               /\ {r.version : r \in history \ history0} \subseteq range
               /\ (pc = "idle" /\ result.kind = "Ok")
                     => /\ BuiltVersions = wanted
                        /\ VersionsOf(result.report) = wanted
                        /\ dryrun => RecordedVersions = << >>
                        /\ ~dryrun => RecordedVersions = wanted
                        /\ (op = "run_apply" /\ ~dryrun) => ExecutedVersions = wanted
                        /\ (op = "run_soft_apply" \/ dryrun) => ExecutedVersions = << >>

\* C5 witness: a target below the greatest source version was applied through.
C5_Witness ==
    /\ Returned("run_apply") /\ target_version.some /\ ~dryrun
    /\ result.kind = "Ok"
    /\ Through0(target_version.v) # {}
    /\ Through0(target_version.v) # Above0
    /\ RecordedVersions = SeqOfSet(Through0(target_version.v))

\* C6: Tern::run with Apply or SoftApply and with_target_version(T), run
\* with validation, that returns Ok has operated on exactly the source
\* migrations with last applied < version <= T, in ascending order.
C6_TernTargetSelection ==
    (app = "Tern" /\ pc = "idle" /\ op \in {"apply", "soft_apply"}
       /\ ~skip_validate /\ target_version.some /\ result.kind = "Ok")
        => /\ BuiltVersions = SeqOfSet(Through0(target_version.v))
           /\ VersionsOf(result.report) = SeqOfSet(Through0(target_version.v))

\* The calls of Runner that validate before they act.
RunnerOps == {"run_apply", "run_soft_apply", "list_applied"}
ValidationFailed ==
    /\ pc = "idle" /\ op \in RunnerOps
    /\ result.kind \in {"OutOfSync", "Invalid"}

\* C7 as stated: when run_apply, run_soft_apply or list_applied returns
\* OutOfSync or Invalid, the database is exactly as it was before the call:
\* no history table created, no history row written, no migration query
\* built or executed.
C7_NoSideEffectAtAll ==
    ValidationFailed
        => /\ historyExists = historyExists0
           /\ history = history0
           /\ committed = committed0
           /\ MigrationEvents = << >>

\* C7: when run_apply, run_soft_apply or list_applied returns OutOfSync or
\* Invalid, no history row has been written, changed or removed and no
\* migration query has been built or executed; the one change the call can
\* have made is to create the history table, empty, where there was none.
C7_OnlyTableCreated ==
    ValidationFailed
        => /\ history = history0
           /\ committed = committed0
           /\ MigrationEvents = << >>
           /\ result.report = << >>
           /\ historyExists
           /\ ~historyExists0 => history = {}

\* C7 witness: a validation error returned by a call that had created the
\* history table.
C7_Witness ==
    /\ ValidationFailed
    /\ ~historyExists0
    /\ historyExists

\* The greatest version among the history rows when the call started.
Latest0 ==
    IF history0 = {} THEN None
    ELSE Some(CHOOSE x \in {r.version : r \in history0} :
                 \A r \in history0 : r.version <= x)
MaxSource == CHOOSE x \in SourceVersions : \A y \in SourceVersions : y <= x

\* The call got as far as validate_target: the table check and both reads of
\* the history table succeeded and the source was in sync.
TargetValidated ==
    /\ op \in {"run_apply", "run_soft_apply"}
    /\ Len(log) >= 3
    /\ \A i \in 1 .. 3 : log[i].ok
    /\ log[3].call = "get_all_applied"

\* C8: over a non-empty source, target validation fails with Invalid exactly
\* when an explicit target T is below the latest applied version or above
\* the greatest source version; without a target it never fails.
C8_ValidateTarget ==
    TargetValidated
        => /\ (all # << >> /\ target_version.some)
                => (result.kind = "Invalid"
                      <=> \/ (Latest0.some /\ target_version.v < Latest0.v)
                          \/ target_version.v > MaxSource)
           /\ ~target_version.some => result.kind # "Invalid"

\* C8 witness: a target that is a version of the source was refused for
\* being below the latest applied version.
C8_Witness ==
    /\ TargetValidated /\ pc = "idle"
    /\ result.kind = "Invalid"
    /\ Latest0.some /\ target_version.v < Latest0.v
    /\ target_version.v \in SourceVersions

\* The ids in the history table at the start of the call that the source
\* does not contain.
Missing0 == {IdOfApplied(r) : r \in history0} \ SourceIds

\* The call got as far as check_migrations_in_sync.
SourceValidated ==
    /\ op \in RunnerOps
    /\ Len(log) >= 2
    /\ log[1].ok /\ log[2].ok

\* C9: validation of the source fails with OutOfSync exactly when some
\* history row's (version, description) is absent from the source, and the
\* error names exactly the history ids absent from the source.
C9_OutOfSyncExact ==
    SourceValidated
        => /\ result.kind = "OutOfSync" <=> Missing0 # {}
           /\ result.kind = "OutOfSync" => result.at_issue = Missing0

\* C9 witness: OutOfSync names a migration renamed under a version that the
\* source still has.
C9_Witness ==
    /\ SourceValidated /\ pc = "idle"
    /\ result.kind = "OutOfSync"
    /\ \E id \in result.at_issue : id.version \in SourceVersions

\* C10: in a real apply, a failed step of a migration (its build, its
\* execution or its history insert) is the last step the call takes: nothing
\* is built, executed or recorded after it and the call has returned an
\* error.
C10_StopAtFirstFailure ==
    (op \in {"run_apply", "apply"} /\ ~dryrun)
        => \A i \in 1 .. Len(log) :
              (log[i].call \in MigrationCalls /\ ~log[i].ok)
                  => /\ i = Len(log)
                     /\ pc = "idle"
                     /\ result.kind = "Partial"

\* C10 witness: a migration failed while a later migration of the same run
\* was still unapplied.
C10_Witness ==
    /\ Returned("run_apply") /\ ~dryrun /\ target_version = None
    /\ result.kind = "Partial"
    /\ ~log[Len(log)].ok
    /\ \E i \in 1 .. Len(all) :
          /\ all[i].version > log[Len(log)].version
          /\ \A r \in history : r.version # all[i].version

\* The versions the running call has pushed a result for: built ones in a
\* dry run, recorded ones otherwise.
CompletedVersions == IF dryrun THEN BuiltVersions ELSE RecordedVersions

LoopFailed ==
    \E i \in 1 .. Len(log) : log[i].call \in MigrationCalls /\ ~log[i].ok

\* C11: a failure inside the per-migration loop of run_apply or
\* run_soft_apply (build, execution or history write) is returned as
\* Error::Partial, and the report of the error lists exactly the results
\* pushed before the failure, in order: one per migration the call had
\* completed, none when the first selected migration fails.
C11_LoopFailureIsPartial ==
    (op \in {"run_apply", "run_soft_apply"} /\ LoopFailed)
        => /\ pc = "idle"
           /\ result.kind = "Partial"
           /\ result.report = results
           /\ VersionsOf(result.report) = CompletedVersions
           /\ Len(MigrationEvents) = 1 => result.report = << >>

\* C11 witness: the second migration of a run failed and the Partial error
\* carries the result of the first.
C11_Witness ==
    /\ op \in {"run_apply", "run_soft_apply"} /\ LoopFailed
    /\ pc = "idle"
    /\ result.kind = "Partial"
    /\ Len(result.report) >= 1

\* Versions of the history rows the running call has added.
WrittenVersions == {r.version : r \in history \ history0}

\* C12: when a real (not dry-run) run_apply or run_soft_apply has returned
\* Ok(report) or Partial{report}, the versions in the report are exactly the
\* versions whose history rows this call wrote, in ascending order.
C12_ReportIsWhatWasRecorded ==
    (pc = "idle" /\ op \in {"run_apply", "run_soft_apply"} /\ ~dryrun
       /\ result.kind \in {"Ok", "Partial"})
        => /\ VersionsOf(result.report) = SeqOfSet(WrittenVersions)
           /\ VersionsOf(result.report) = RecordedVersions
           /\ Len(result.report) = Cardinality(history \ history0)

\* C12 witness: a Partial error after one migration was recorded and the
\* next one was executed but its history insert failed.
C12_Witness ==
    /\ pc = "idle" /\ op = "run_apply" /\ ~dryrun
    /\ result.kind = "Partial"
    /\ WrittenVersions # {}
    /\ Len(ExecutedVersions) > Len(RecordedVersions)

Executes(e) == e.call \in {"apply_tx", "apply_no_tx"}
ExecutionDone(e) ==
    e.ok /\ (e.call = "apply_tx" \/ (e.call = "apply_no_tx" /\ e.stmt = NumStmts))

\* C13: within one run_apply(_, false) the migrations are processed one at a
\* time in ascending version order: a build is either the first step of the
\* loop or directly follows the successful history insert of a smaller
\* version; an execution step directly follows the successful build (or the
\* previous statement) of the same migration; a history insert directly
\* follows the completed execution of the same migration.
C13_OneAtATimeAscending ==
    (op = "run_apply" /\ ~dryrun)
        => \A i \in 1 .. Len(MigrationEvents) :
              LET e == MigrationEvents[i]
                  p == MigrationEvents[i - 1]
              IN  /\ e.call = "build" =>
                        \/ i = 1
                        \/ /\ p.call = "insert_applied_migration" /\ p.ok
                           /\ p.version < e.version
                  /\ Executes(e) =>
                        /\ i > 1 /\ p.ok /\ p.version = e.version
                        /\ \/ p.call = "build" /\ e.stmt \in {0, 1}
                           \/ /\ p.call = "apply_no_tx" /\ e.call = "apply_no_tx"
                              /\ e.stmt = p.stmt + 1
                  /\ e.call = "insert_applied_migration" =>
                        /\ i > 1 /\ p.version = e.version
                        /\ ExecutionDone(p)

\* C13 witness: two migrations went through build, execution and insert.
C13_Witness ==
    /\ Returned("run_apply") /\ ~dryrun /\ result.kind = "Ok"
    /\ Len(RecordedVersions) >= 2

MutatingCalls == {"apply_tx", "apply_no_tx", "insert_applied_migration",
                  "upsert_applied_migration"}

\* C14: run_apply(_, true) and run_soft_apply(_, true) never call apply_tx,
\* apply_no_tx, insert_applied_migration or upsert_applied_migration, and
\* the history rows and the committed statements are at every point of the
\* call, and after it with Ok or an error, what they were before it.
C14_DryRunChangesNothing ==
    (op \in {"run_apply", "run_soft_apply"} /\ dryrun)
        => /\ \A i \in 1 .. Len(log) : log[i].call \notin MutatingCalls
           /\ history = history0
           /\ committed = committed0

\* C14 witness: a dry run that built the query of an unapplied migration
\* has returned.
C14_Witness ==
    /\ pc = "idle" /\ op \in {"run_apply", "run_soft_apply"} /\ dryrun
    /\ BuiltVersions # << >>
    /\ result.kind \in {"Ok", "Partial"}

\* C15: when run_apply(T, true) returned Ok and the next call is
\* run_apply(T, false), which starts from the same database state and
\* returns Ok, the content the dry run reported for each migration is the SQL
\* the real run executed and recorded for it, also for queries built from
\* the database.
C15_DryRunContentIsWhatRuns ==
    (prevDry.some /\ Returned("run_apply") /\ ~dryrun
       /\ target_version = prevDry.target /\ result.kind = "Ok")
        => /\ Len(prevDry.report) = Len(result.report)
           /\ \A i \in 1 .. Len(result.report) :
                 /\ prevDry.report[i].version = result.report[i].version
                 /\ prevDry.report[i].content = result.report[i].content
                 /\ \E r \in history :
                       /\ r.version = result.report[i].version
                       /\ r.content = prevDry.report[i].content

\* The versions a call with the current target is to process.
Selected0 == IF target_version.some THEN Through0(target_version.v) ELSE Above0

\* C16: run_soft_apply(T, false) never calls apply_tx or apply_no_tx and
\* commits no migration statement; when it returns Ok the history table
\* holds its previous rows plus exactly one row, with duration_ms = 0, for
\* each source migration with last_applied < version <= T.
C16_SoftApplyRecordsOnly ==
    (op = "run_soft_apply" /\ ~dryrun)
        => /\ \A i \in 1 .. Len(log) : ~Executes(log[i])
           /\ committed = committed0
           /\ (pc = "idle" /\ result.kind = "Ok")
                 => /\ history0 \subseteq history
                    /\ WrittenVersions = Selected0
                    /\ Cardinality(history \ history0) = Cardinality(Selected0)
                    /\ \A r \in history \ history0 : r.duration_ms = 0

\* C16 witness: run_soft_apply(Some(1), false) on a source with V1 and V2
\* has recorded V1 only.
C16_Witness ==
    /\ Returned("run_soft_apply") /\ ~dryrun /\ result.kind = "Ok"
    /\ target_version = Some(1)
    /\ Len(all) >= 2
    /\ WrittenVersions = {1}

\* C17: run_soft_apply(_, false) writes each history row with
\* upsert_applied_migration and never calls insert_applied_migration.
C17_SoftApplyUpserts ==
    (op = "run_soft_apply" /\ ~dryrun)
        => /\ \A i \in 1 .. Len(log) : log[i].call # "insert_applied_migration"
           /\ WrittenVersions # {} =>
                 \E i \in 1 .. Len(log) : log[i].call = "upsert_applied_migration"

\* The call's last step was statement k of the no_tx migration V<v>, and it
\* failed.
NoTxFailedAt(v, k) ==
    /\ op = "run_apply" /\ ~dryrun /\ log # << >>
    /\ log[Len(log)] = Event("apply_no_tx", v, k, FALSE)

\* C18: apply_no_tx executes the statements of a no_tx migration one call
\* at a time, in order; when statement k fails, statements 1 .. k-1 stay
\* committed, statement k and the ones after it have not taken effect, and
\* no history row is written for the migration.
C18_NoTxPartialEffects ==
    \A v \in Versions, k \in 1 .. NumStmts :
        NoTxFailedAt(v, k)
            => /\ Len(log) > k
               /\ \A j \in 1 .. k - 1 :
                     /\ log[Len(log) - k + j] = Event("apply_no_tx", v, j, TRUE)
                     /\ committed[v][j] = committed0[v][j] + 1
               /\ log[Len(log) - k] = Event("build", v, 0, TRUE)
               /\ \A j \in k .. NumStmts : committed[v][j] = committed0[v][j]
               /\ v \notin WrittenVersions
               /\ \A r \in history : r.version # v
               /\ pc = "idle" /\ result.kind = "Partial"

\* C18 witness: the second statement of a no_tx migration failed after the
\* first was committed.
C18_Witness ==
    \E v \in Versions :
        /\ NoTxFailedAt(v, 2)
        /\ committed[v][1] = committed0[v][1] + 1

\* The call's last step was the execution of the transactional migration
\* V<v>, and it failed.
TxFailedAt(v) ==
    /\ op = "run_apply" /\ ~dryrun /\ log # << >>
    /\ log[Len(log)] = Event("apply_tx", v, 0, FALSE)

\* C19: when the execution of a no_tx = false migration fails, none of its
\* statements has taken effect and no history row is written for it.
C19_TxFailureRollsBack ==
    \A v \in Versions :
        TxFailedAt(v)
            => /\ \A k \in 1 .. NumStmts : committed[v][k] = committed0[v][k]
               /\ v \notin WrittenVersions
               /\ \A r \in history : r.version # v
               /\ \A i \in 1 .. Len(log) :
                     log[i].call = "insert_applied_migration" => log[i].version # v
               /\ pc = "idle" /\ result.kind = "Partial"

\* C19 witness: the transaction of the second migration of a run failed
\* after the first migration was applied and recorded.
C19_Witness ==
    \E v \in Versions :
        /\ TxFailedAt(v)
        /\ WrittenVersions # {}

\* C20: in every migrate operation, with or without skip_validate, the
\* first read of the history rows and every build or apply step come after
\* a create_history_if_not_exists call of the same operation.
C20_TableCheckedFirst ==
    \A i \in 1 .. Len(log) :
        (log[i].call = "get_all_applied" \/ log[i].call \in MigrationCalls)
            => \E j \in 1 .. i - 1 : log[j].call = "create_history_if_not_exists"

\* ------------------------------------------------- two concurrent runners
\* The process with the call log l had its insert for V<v> accepted.
InsertedBy(l, v) ==
    \E i \in 1 .. Len(l) :
        /\ l[i].call = "insert_applied_migration"
        /\ l[i].version = v /\ l[i].ok

\* Position in the log l of a rejected insert for V<v>, if any.
RejectedAt(l, v) ==
    {i \in 1 .. Len(l) : /\ l[i].call = "insert_applied_migration"
                         /\ l[i].version = v /\ ~l[i].ok}

\* C21: with two runners executing run_apply concurrently on one database,
\* the history table never holds two rows with the same version and at most
\* one of them has its insert for a version accepted; a rejected
\* insert_applied_migration is the last executor call of its run, so that
\* run applies no later migration, and the run ends with an error.
C21_OneRowPerVersion ==
    /\ \A r1, r2 \in history : r1.version = r2.version => r1 = r2
    /\ \A v \in Versions : ~(InsertedBy(log, v) /\ InsertedBy(other.log, v))
    /\ \A l \in {log, other.log} : \A v \in Versions :
         \A i \in RejectedAt(l, v) : i = Len(l)
    /\ \A v \in Versions :
         (RejectedAt(log, v) # {}) => (pc = "idle" /\ result.kind = "Partial")
    /\ \A v \in Versions :
         (RejectedAt(other.log, v) # {})
             => (other.pc = "idle" /\ other.result.kind = "Partial")

\* One runner wrote the row of a version and the other, having executed the
\* same migration, had its insert rejected by the primary key.
C21_Witness ==
    \E v \in Versions :
        /\ InsertedBy(other.log, v)
        /\ RejectedAt(log, v) # {}
        /\ \E i \in 1 .. Len(log) :
               log[i].call \in {"apply_tx", "apply_no_tx"}
               /\ log[i].version = v /\ log[i].ok
        /\ \E r \in history : r.version = v

\* The process with the call log l executed the whole query of V<v>.
ExecutedBy(l, v) ==
    \E i \in 1 .. Len(l) :
        /\ l[i].version = v /\ l[i].ok
        /\ \/ l[i].call = "apply_tx"
           \/ l[i].call = "apply_no_tx" /\ l[i].stmt = NumStmts

\* C22: with two runners executing run_apply concurrently, nothing prevents
\* both from executing the query of the same unapplied migration: when one
\* process has executed the query of V and has not written its row, the
\* other process, at the apply step of V, can still execute it.
C22_NothingPreventsSecondExecution ==
    \A v \in Versions :
        (/\ ExecutedBy(other.log, v)
         /\ ~InsertedBy(other.log, v)
         /\ \A r \in history : r.version # v
         /\ pc \in {"apply_tx", "apply_no_tx"}
         /\ Head(unapplied).version = v)
        => /\ pc = "apply_tx"
              => ENABLED (ApplyTx /\ committed'[v] # committed[v])
           /\ pc = "apply_no_tx"
              => ENABLED (ApplyNoTx /\ committed'[v] # committed[v])

\* The query of one migration has been executed by both processes, every
\* statement twice, before either process has written the history row.
C22_Witness ==
    \E v \in Versions :
        /\ ExecutedBy(log, v) /\ ExecutedBy(other.log, v)
        /\ ~InsertedBy(log, v) /\ ~InsertedBy(other.log, v)
        /\ \A r \in history : r.version # v
        /\ \A k \in 1 .. NumStmts : committed[v][k] = 2
        /\ pc = "insert_applied_migration"
        /\ other.pc = "insert_applied_migration"

\* ------------------------------------------------------- MigrationSet::new
StrictlyIncreasing(s) == \A i, j \in 1 .. Len(s) : i < j => s[i] < s[j]

\* C23: for every input collection, versions() of the set MigrationSet::new
\* returns is strictly increasing, without a duplicate value.
C23_VersionsStrictlyIncreasing ==
    ret.some => StrictlyIncreasing(versions(ret.v))

\* ------------------------------------------------------------ history rows
\* The current call built the query of V<v>.
BuiltOk(v) ==
    \E i \in 1 .. Len(log) :
        log[i].call = "build" /\ log[i].version = v /\ log[i].ok

\* C24: history rows are append-only under run_apply, run_soft_apply,
\* list_applied and init_history: no step deletes a row or changes a field
\* of one, and a step adds a row only for the migration whose apply (its
\* whole query executed) or soft-apply (its query built) step succeeded.
C24_HistoryAppendOnly ==
    [][/\ history \subseteq history'
       /\ \A r \in history' \ history :
            /\ op \in {"run_apply", "run_soft_apply"}
            /\ r = applied
            /\ r.version = Head(unapplied).version
            /\ op = "run_apply" => ExecutedBy(log, r.version)
            /\ op = "run_soft_apply" => BuiltOk(r.version)]_vars

\* A call has added a row to a history that already had rows, and kept them.
C24_Witness ==
    /\ pc = "idle" /\ op \in {"run_apply", "run_soft_apply"}
    /\ history0 # {}
    /\ history0 \subseteq history
    /\ history # history0

\* C25: check_history_table (Runner::init_history) is idempotent.  On a
\* database that has the history table the call can succeed, and a call that
\* succeeds leaves the table existing with the rows it had (none if it was
\* created by the call) and executes nothing else; creating the table once
\* more after that changes nothing.
C25_InitHistoryIdempotent ==
    /\ (pc = "init_history" /\ historyExists)
           => ENABLED (InitHistory /\ result'.kind = "Ok" /\ history' = history)
    /\ (Returned("init_history") /\ result.kind = "Ok")
           => /\ historyExists
              /\ history = history0
              /\ committed = committed0
              /\ log = <<Event("create_history_if_not_exists", 0, 0, TRUE)>>
              /\ create_history_if_not_exists(TRUE, history) = history

\* init_history has returned Ok as the second call of the runner, on a
\* history table that existed with rows in it.
C25_Witness ==
    /\ Returned("init_history") /\ result.kind = "Ok"
    /\ runs = 2
    /\ historyExists0 /\ history0 # {}
    /\ history = history0

\* ------------------------------------------------------------ list_applied
\* C26: list_applied builds and executes no migration query and writes no
\* history row, at any point of the call; when the source-sync validation
\* passes and the history is read, it returns Ok with exactly one result per
\* history row, the projection of that row, in ascending version order.
C26_ListAppliedReadsOnly ==
    op = "list_applied" =>
        /\ \A i \in 1 .. Len(log) :
               log[i].call \in {"create_history_if_not_exists", "get_all_applied"}
        /\ history = history0
        /\ committed = committed0
        /\ (pc = "idle" /\ NoFailedCall
                /\ result.kind \notin {"OutOfSync", "Invalid"})
           => /\ result.kind = "Ok"
              /\ Len(result.report) = Cardinality(history)
              /\ StrictlyIncreasing([i \in 1 .. Len(result.report) |->
                                        result.report[i].version])
              /\ \A r \in history :
                     \E i \in 1 .. Len(result.report) :
                         result.report[i] = from_applied(r, None)

\* list_applied has returned the results of two history rows.
C26_Witness ==
    /\ Returned("list_applied") /\ result.kind = "Ok"
    /\ Cardinality(history) = 2
    /\ Len(result.report) = 2
    /\ result.report[1].version < result.report[2].version

\* ------------------------------------------------------- split_statements
\* The text of a returned statement without the line feed writeln! added.
Statement(s) == trim(s)

\* The characters of s that are not white space.
Visible(s) == SelectSeq(s, LAMBDA c : ~is_whitespace(c))

\* C27: every string split_statements returns is a non-empty SQL statement
\* terminated by ';', never the terminator alone, and the returned strings
\* together hold all the text of the comment-stripped query, a final
\* statement without ';' included.
C27_StatementsNonEmptyTerminated ==
    ret.some =>
        /\ \A i \in 1 .. Len(ret.v) :
               /\ ends_with(Statement(ret.v[i]), <<";">>)
               /\ Statement(ret.v[i]) # <<";">>
        /\ Visible(join(ret.v, << >>)) = Visible(sanitize(arg.v))

RECURSIVE without_comments(_)
\* The query text as SQL reads it: "--" opens a comment up to the end of
\* the line, "/*" one up to the next "*/".
without_comments(s) ==
    IF s = << >> THEN << >>
    ELSE IF starts_with(s, <<"-", "-">>)
    THEN LET i == find(s, <<"\n">>)
         IN  IF i = 0 THEN << >> ELSE without_comments(SubSeq(s, i, Len(s)))
    ELSE LET rest == SubSeq(s, 3, Len(s))
             j == find(rest, <<"*", "/">>)
         IN  IF starts_with(s, <<"/", "*">>) /\ j # 0
             THEN without_comments(SubSeq(rest, j + 2, Len(rest)))
             ELSE <<Head(s)>> \o without_comments(Tail(s))

\* The query has statements, and every statement terminator is the last
\* character of its line, blanks aside.
TerminatorsEndLines(sql) ==
    /\ Visible(without_comments(sql)) # << >>
    /\ \A l \in Range(lines(without_comments(sql))) :
         \A i \in 1 .. Len(l) :
             l[i] = ";" => trim(SubSeq(l, i + 1, Len(l))) = << >>

\* The visible text of the query without its comments, the last statement
\* terminated.
Expected(sql) ==
    LET text == Visible(without_comments(sql))
    IN  IF text = << >> \/ ends_with(text, <<";">>) THEN text
        ELSE text \o <<";">>

\* The string is the lines of one statement: no blank line, and the last
\* line, and only the last, ends with ';'.
OneStatement(s) ==
    LET ls == lines(s)
    IN  /\ ls # << >> /\ ends_with(s, <<"\n">>)
        /\ \A i \in 1 .. Len(ls) :
               /\ trim(ls[i]) # << >>
               /\ ends_with(ls[i], <<";">>) <=> i = Len(ls)

\* C28: for a query whose statement terminators end their line, the strings
\* split_statements returns, concatenated in order, are the query without
\* its '--' and '/* */' comments and without blank lines, cut after each
\* line ending in ';'.
C28_ConcatenationIsStrippedQuery ==
    (ret.some /\ TerminatorsEndLines(arg.v)) =>
        /\ Visible(join(ret.v, << >>)) = Expected(arg.v)
        /\ \A i \in 1 .. Len(ret.v) : OneStatement(ret.v[i])

\* ------------------------------------------------- MigrationContext::apply
\* C29: MigrationContext::apply, called by run_apply(_, false) for each
\* migration, returns the AppliedMigration whose row it inserted or, whatever
\* step failed (build, execution, insert), an ExecuteMigration error.
C29_ApplyReturnsAppliedOrExecuteMigration ==
    (op = "run_apply" /\ ~dryrun) =>
        /\ \A i \in 1 .. Len(results) :
               \E r \in history :
                   \E no_tx \in BOOLEAN : results[i] = from_applied(r, Some(no_tx))
        /\ (pc = "idle" /\ result.kind = "Partial")
               => result.cause = "ExecuteMigration"

\* -------------------------------------------------------------- termination
\* The current call built the query of every migration at most once.
AttemptedAtMostOnce ==
    \A i, j \in 1 .. Len(log) :
        (log[i].call = "build" /\ log[j].call = "build"
             /\ log[i].version = log[j].version) => i = j

TerminalKinds == {"Ok", "Execute", "OutOfSync", "Invalid", "Partial"}

\* C30: every executor call returning, each run_apply, run_soft_apply and
\* list_applied call eventually returns; it has an outcome, Ok with a report
\* or one error, exactly when it has returned, and it attempts every selected
\* migration at most once.
C30_OperationsTerminate ==
    /\ [](op \in RunnerOps =>
              /\ pc = "idle" <=> result.kind \in TerminalKinds
              /\ pc # "idle" <=> result.kind = "none"
              /\ AttemptedAtMostOnce)
    /\ (pc # "idle") ~> (pc = "idle")

\* A run_apply has returned after attempting two migrations.
C30_Witness ==
    /\ Returned("run_apply") /\ result.kind \in TerminalKinds
    /\ \E i, j \in 1 .. Len(log) :
           /\ log[i].call = "build" /\ log[j].call = "build"
           /\ log[i].version < log[j].version

\* ------------------------------------------------ OutOfSync error contents
\* C31: the at_issue list of the OutOfSync error of check_migrations_in_sync
\* holds the out-of-sync ids in ascending version order.
C31_AtIssueAscending ==
    (ret.some /\ ret.v.kind = "OutOfSync") =>
        /\ Range(ret.v.at_issue)
               = check_migrations_in_sync(arg.v.applied, arg.v.source)
        /\ StrictlyIncreasing(VersionsOf(ret.v.at_issue))

\* -------------------------------------------------------- soft-applied rows
\* C32: every history row a soft apply writes, through Runner::run_soft_apply
\* or through the soft_apply of the Tern application, has as content the
\* soft-applied marker followed by the built SQL, which no row of a real
\* apply has.
C32_SoftAppliedRowsMarked ==
    /\ op \in {"run_soft_apply", "soft_apply"}
           => \A r \in history \ history0 :
                  /\ r.marker = SoftMarker
                  /\ \E i \in 1 .. Len(all) :
                         /\ all[i].version = r.version
                         /\ r.content = Sql(all[i])
    /\ op \in {"run_apply", "apply"}
           => \A r \in history \ history0 : r.marker = NoMarker

\* ------------------------------------------------- compile-time validation
\* C33: Validator::validate accepts a list of migration ids exactly when its
\* versions are 1, 2, ..., n for n migrations, and rejects any other list
\* with a Version error that names a version of the list.
C33_AcceptsExactlyOneToN ==
    ret.some =>
        /\ ret.v.kind = "Ok"
               <=> /\ Range(VersionsOf(arg.v)) = 1 .. Len(arg.v)
        /\ ret.v.kind # "Ok"
               => /\ ret.v.kind = "Version"
                  /\ ret.v.offending_versions # << >>
                  /\ Range(ret.v.offending_versions)
                         \subseteq Range(VersionsOf(arg.v))

\* ------------------------------------------------------- rows and sources
\* C34: from an empty history table and over a fixed source, after any
\* run_apply and run_soft_apply calls of one runner, with any target, dry-run
\* flag and failures, the id of every history row is the id of a source
\* migration; the source validation finds nothing out of sync and no call
\* returns OutOfSync.
C34_RowsAreSourceIds ==
    /\ \A r \in history : IdOfApplied(r) \in SourceIds
    /\ check_migrations_in_sync({IdOfApplied(r) : r \in history}, SourceIds) = {}
    /\ result.kind # "OutOfSync"

\* A second call has passed the validation and returned, with rows of a
\* real and of a soft apply in the table.
C34_Witness ==
    /\ pc = "idle" /\ runs = 2
    /\ op \in {"run_apply", "run_soft_apply"}
    /\ result.kind = "Ok"
    /\ \E r1, r2 \in history : r1.marker = SoftMarker /\ r2.marker = NoMarker

\* C35: from an empty history table, after any apply and soft apply calls,
\* with any targets and failures, the versions in the history table are a
\* prefix of the ascending source versions: when version v has a row, every
\* smaller source version has one.
C35_HistoryIsPrefixOfSource ==
    \A r \in history :
        \A v \in SourceVersions :
            v < r.version => \E r2 \in history : r2.version = v

\* ------------------------------------------------------- recorded versions
\* C36: once the history table holds a row for version v, written by an
\* apply or by a soft apply, no run_apply or run_soft_apply the same runner
\* starts afterwards builds, executes or records migration v; a soft-applied
\* migration's query is not executed by a later run_apply.
C36_RecordedVersionNotSelectedAgain ==
    op \in {"run_apply", "run_soft_apply"} =>
        \A r \in history0 :
            \A i \in 1 .. Len(log) :
                log[i].call \in MigrationCalls => log[i].version # r.version

\* The runner's second call, a run_apply, has executed a migration while the
\* table held a soft-applied row from before the call.
C36_Witness ==
    /\ runs = 2 /\ op = "run_apply" /\ ~dryrun
    /\ \E r \in history0 : r.marker = SoftMarker
    /\ ExecutedVersions # << >>

\* ------------------------------------------------------ after drop_history
\* The current call is the run_apply(None, false) that follows a drop_history
\* which returned Ok.
AppliesAfterDrop ==
    /\ prevDropped
    /\ op = "run_apply" /\ target_version = None /\ ~dryrun

\* The call has created the history table.
TableChecked == Len(log) >= 1 /\ log[1].ok

\* The call has selected its migrations, after its two reads of the table.
Selected == Len(log) >= 3 /\ log[3].ok

\* C37: after drop_history, the next run_apply(None, false) re-creates the
\* history table without a row, selects every source migration and executes
\* each of them again, also those whose statements were committed before;
\* only a failed call to the database or a failed build stops it.
C37_AfterDropEverythingAppliedAgain ==
    /\ (pc = "idle" /\ op = "drop_history" /\ result.kind = "Ok")
           => (~historyExists /\ history = {})
    /\ AppliesAfterDrop =>
           /\ ~historyExists0 /\ history0 = {}
           /\ TableChecked =>
                  /\ historyExists
                  /\ {r.version : r \in history} = Range(RecordedVersions)
           /\ (Selected /\ pc # "idle") =>
                  Range(BuiltVersions) \cup Range(VersionsOf(unapplied))
                      = SourceVersions
           /\ (pc = "idle" /\ result.kind = "Ok") =>
                  /\ ExecutedVersions = SeqOfSet(SourceVersions)
                  /\ \A v \in SourceVersions :
                         committed[v] = [k \in 1 .. NumStmts |->
                                            committed0[v][k] + 1]

\* The run_apply after the drop has returned Ok, having executed again a
\* migration whose statements were all committed before the drop.
C37_Witness ==
    /\ AppliesAfterDrop
    /\ pc = "idle" /\ result.kind = "Ok"
    /\ \E v \in SourceVersions :
           /\ committed0[v][NumStmts] >= 1
           /\ committed[v][NumStmts] = committed0[v][NumStmts] + 1

\* ------------------------------------------------ derrick source validation
\* C38: run_validation returns VersionMissing(v) only for an applied version
\* v that is not among the source versions, returns it whenever there is
\* such a version, and returns Ok when every applied version is in the
\* source.
C38_VersionMissingIffAbsent ==
    ret.some =>
        LET source_versions == Range(VersionsOf(arg.v.source))
            applied_versions == Range(VersionsOf(arg.v.applied))
        IN  /\ ret.v.kind = "Ok" <=> applied_versions \subseteq source_versions
            /\ ret.v.kind = "VersionMissing"
                   => ret.v.version \in applied_versions \ source_versions

\* ------------------------------------------------------------ migrate new
\* The greatest of a set of versions, 0 for the empty set.
Greatest(S) == IF S = {} THEN 0 ELSE CHOOSE x \in S : \A y \in S : y <= x

\* C39: get_latest_version returns the greatest version among the migration
\* files of the directory, 0 when there are none, in whatever order the
\* entries are read, and the new migration gets that version plus one.
C39_LatestIsGreatestVersion ==
    ret.some =>
        /\ ret.v.latest = Greatest(Range(VersionsOf(arg.v)))
        /\ ret.v.new = Greatest(Range(VersionsOf(arg.v))) + 1

====
